---- MODULE Spec2Model ----
(***************************************************************************)
(* A model of two parts of the studio repository:                          *)
(*                                                                         *)
(*  - BenchmarkPlayer (benchmark/src/players/BenchmarkPlayer.ts): the      *)
(*    replay harness.  Every await of run() is a position (pc) of a run;   *)
(*    the source and the listener are the environment.                     *)
(*  - GlobalVariablesTable and Variable (components/GlobalVariablesTable): *)
(*    the add / rename / edit-value / delete handlers over the global      *)
(*    variables object.                                                    *)
(***************************************************************************)
EXTENDS Integers, Sequences, FiniteSets, TLC

(***************************************************************************)
(* Bounds                                                                  *)
(***************************************************************************)
MaxRuns == 2        \* setListener calls explored on one player
MaxItems == 3       \* items the message iterator yields at most
TicksPerDelay == 3  \* clock steps that make up ANIMATION_RESET_DELAY_MS
MaxRenderStates == 3 \* render states the host hands to the 3D panel

(***************************************************************************)
(* Values of the environment                                               *)
(***************************************************************************)
Listeners == {"l1", "l2"}
NoListener == "undefined"
NoProblem == "none"
NoError == "none"
ListenerError == "listener rejected"
ListenerNotSet == "Invariant: listener is not set"

\* result.problems as source.initialize() may return it
InitProblemChoices == {<<>>, <<"e1">>, <<"e1", "e2">>, <<"e2", "e1">>}

\* item i of the iterator: a message event (identified by its position)
\* or a problem
MsgItem(i) == [problem |-> NoProblem, msgEvent |-> i]
ProblemItem(i) == [problem |-> "p", msgEvent |-> 0]

RECURSIVE ItemSeqs(_)
ItemSeqs(n) ==
  IF n = 0 THEN {<<>>}
  ELSE LET shorter == ItemSeqs(n - 1)
           longest == {s \in shorter : Len(s) = n - 1}
       IN shorter \cup {Append(s, MsgItem(n)) : s \in longest}
                  \cup {Append(s, ProblemItem(n)) : s \in longest}

\* the SubscribePayload lists the layout may set
SubscriptionChoices == {<<[topic |-> "t2"], [topic |-> "t1"]>>}

\* variable names typed into the table, and the values the JSON editor
\* hands to onChange (a string, the empty string, null)
Names == {"", "a", "b"}
Null == "<null>"
Undefined == "<undefined>"
Values == {"", "v", Null}

\* 3D panel: the publish click types of the menu; a queued state update is
\* <<value>>, no queued update is <<>>
PublishClickTypes == {"pose_estimate", "pose", "point"}
NoUpdate == <<>>

ANIMATION_RESET_DELAY_MS == 3000
TickMs == ANIMATION_RESET_DELAY_MS \div TicksPerDelay
NoTimer == -1

VARIABLES
  listener,        \* BenchmarkPlayer.listener
  subscriptions,   \* BenchmarkPlayer.subscriptions
  runs,            \* the run() invocations started so far, in start order
  closed,          \* close() has been called during a run (observer)
  sentAfterClose,  \* the first run notified the listener after that (observer)
  initProblems,    \* source: the problems initialize() reports
  sourceItems,     \* source: the items the message iterator yields
  globalVariables, \* useGlobalVariables().globalVariables, in key order
  linkedNames,     \* names with an entry in linkedGlobalVariablesByName
  changedVariables,           \* the names highlighted in the table
  previousGlobalVariablesRef, \* previousGlobalVariablesRef.current
  resetTimer,      \* ms until setChangedVariables([]) fires, or NoTimer
  skipAnimation,   \* skipAnimation.current
  skipTimer,       \* ms until skipAnimation.current = false, or NoTimer
  focused,         \* isActiveElementEditable()
  sinceChange,     \* ms since globalVariables changed last (observer, capped)
  measureActive,   \* useState measureActive
  publishActive,   \* useState publishActive
  publishClickType,    \* renderer.publishClickTool.publishClickType
  configPublishType,   \* config.publish.type
  publishMenuExpanded, \* RendererOverlay: useState publishMenuExpanded
  didSeek,         \* useState didSeek, as last rendered
  messages,        \* useState messages, as last rendered (0: undefined)
  pendingDidSeek,  \* queued setDidSeek value, or NoUpdate
  pendingMessages, \* queued setMessages value, or NoUpdate
  pendingUpdaters, \* functions queued by setRenderDone, not yet invoked
  pendingEffects,  \* effects of the last render that have not run yet
  needsRender,     \* renderRef.current.needsRender
  contents,        \* renderer: the messages added since the last clear()
  awaitingFrame,   \* renderer: messages added and not yet drawn
  drawn,           \* messages of which a frame has been drawn (observer)
  clears,          \* number of renderer.clear() calls (observer)
  stateSeek,       \* didSeek of the render states handed over so far (observer)
  renderDone,      \* useState renderDone, as last rendered
  doneLog          \* the calls of done callbacks, in order (observer)

playerVars == <<listener, subscriptions, runs>>
sourceVars == <<initProblems, sourceItems>>
highlightVars == <<changedVariables, previousGlobalVariablesRef, resetTimer,
                   skipAnimation, skipTimer, sinceChange>>
tableVars == <<globalVariables, linkedNames, highlightVars, focused>>
observerVars == <<closed, sentAfterClose>>
toolVars == <<measureActive, publishActive, publishClickType,
              configPublishType, publishMenuExpanded>>
reactVars == <<didSeek, messages, renderDone, pendingDidSeek,
               pendingMessages, pendingUpdaters, pendingEffects>>
rendererVars == <<needsRender, contents, awaitingFrame, drawn, clears>>
hostVars == <<stateSeek, doneLog>>
panelVars == <<toolVars, reactVars, rendererVars, hostVars>>
vars == <<listener, subscriptions, runs, closed, sentAfterClose,
          initProblems, sourceItems, globalVariables, linkedNames,
          changedVariables, previousGlobalVariablesRef, resetTimer,
          skipAnimation, skipTimer, focused, sinceChange,
          measureActive, publishActive, publishClickType,
          configPublishType, publishMenuExpanded, didSeek, messages,
          pendingDidSeek, pendingMessages, pendingUpdaters, pendingEffects,
          needsRender, contents, awaitingFrame, drawn, clears, stateSeek,
          renderDone, doneLog>>

(***************************************************************************)
(* BenchmarkPlayer                                                         *)
(***************************************************************************)

\* The PlayerState objects run() passes to the listener.
InitializingState(suffix) ==
  [presence |-> "INITIALIZING", name |-> suffix, messages |-> <<>>]

PresentState(msgEvent) ==
  [presence |-> "PRESENT", name |-> "", messages |-> <<msgEvent>>]

\* Variant of CallListener: the notification goes to this.listener as it
\* is at the time of the call.
CallListenerCurrent(run, state) ==
  [run EXCEPT !.sent = Append(@, [state |-> state, to |-> listener]),
              !.outstanding = @ + 1]

\* listener(state): the call is made now, its promise is pending afterwards.
\* listener is the constant run() took from this.listener at its entry.
CallListener(run, state) ==
  [run EXCEPT !.sent = Append(@, [state |-> state, to |-> run.listener]),
              !.outstanding = @ + 1]

\* Variant of Throw: a failed run starts over from source.initialize().
ThrowRetries(run, message) ==
  IF run.initCalls < 2
  THEN [run EXCEPT !.pc = "await_initialize", !.initCalls = @ + 1]
  ELSE [run EXCEPT !.pc = "aborted", !.error = message]

\* throw inside the async run(): the promise of run() rejects, nothing
\* else happens.
Throw(run, message) ==
  [run EXCEPT !.pc = "aborted", !.error = message]

\* Variant of Playback: the listener is called for the next message event
\* without awaiting the promise of the previous call.
PlaybackNotAwaited(run, k) ==
  IF k > Len(run.msgEvents)
  THEN [run EXCEPT !.pc = "done"]
  ELSE LET first == CallListener([run EXCEPT !.pc = "await_present", !.k = k],
                                 PresentState(run.msgEvents[k]))
       IN IF k + 1 > Len(run.msgEvents)
          THEN first
          ELSE CallListener([first EXCEPT !.k = k + 1],
                            PresentState(run.msgEvents[k + 1]))

\* for (const msgEvent of msgEvents) { await listener({... PRESENT ...}) },
\* entered at the k-th message event.
Playback(run, k) ==
  IF k > Len(run.msgEvents)
  THEN [run EXCEPT !.pc = "done"]
  ELSE CallListener([run EXCEPT !.pc = "await_present", !.k = k],
                    PresentState(run.msgEvents[k]))

\* Variant of Run: nothing of run() happens inside setListener.
RunDeferred(thisListener) ==
  [listener |-> thisListener, pc |-> "start", error |-> NoError,
   sent |-> <<>>, outstanding |-> 0, resolved |-> 0,
   initCalls |-> 0, initReturned |-> FALSE,
   iterCalls |-> 0, iterTopics |-> <<>>,
   pulled |-> 0, iterDone |-> FALSE,
   msgEvents |-> <<>>, k |-> 0]

\* run() from its entry to its first await.
Run(thisListener) ==
  LET fresh == [listener |-> thisListener, pc |-> "start", error |-> NoError,
                sent |-> <<>>, outstanding |-> 0, resolved |-> 0,
                initCalls |-> 0, initReturned |-> FALSE,
                iterCalls |-> 0, iterTopics |-> <<>>,
                pulled |-> 0, iterDone |-> FALSE,
                msgEvents |-> <<>>, k |-> 0]
  IN IF thisListener = NoListener
     THEN Throw(fresh, ListenerNotSet)
     ELSE CallListener([fresh EXCEPT !.pc = "await_init_notify"],
                       InitializingState("initializing source"))

\* Variant of ListenerResolved: the topics are requested in reverse order.
ListenerResolvedTopicsReversed(run) ==
  LET r == [run EXCEPT !.outstanding = @ - 1, !.resolved = @ + 1]
      n == Len(subscriptions)
  IN CASE run.pc = "await_init_notify" ->
            [r EXCEPT !.pc = "await_initialize", !.initCalls = @ + 1]
       [] run.pc = "await_loading_notify" ->
            [r EXCEPT !.pc = "await_next", !.iterCalls = @ + 1,
                      !.iterTopics =
                         [i \in 1..n |-> subscriptions[n + 1 - i].topic]]
       [] run.pc = "await_present" -> Playback(r, run.k + 1)
       [] OTHER -> r

\* The continuation of run() after an awaited listener promise resolved.
ListenerResolved(run) ==
  LET r == [run EXCEPT !.outstanding = @ - 1, !.resolved = @ + 1]
  IN CASE run.pc = "await_init_notify" ->
            [r EXCEPT !.pc = "await_initialize", !.initCalls = @ + 1]
       [] run.pc = "await_loading_notify" ->
            [r EXCEPT !.pc = "await_next", !.iterCalls = @ + 1,
                      !.iterTopics =
                         [i \in 1..Len(subscriptions) |-> subscriptions[i].topic]]
       [] run.pc = "await_present" -> Playback(r, run.k + 1)
       [] OTHER -> r

\* Variant of InitializeReturned: result.problems is not looked at.
InitializeReturnedUnchecked(run, problems) ==
  [run EXCEPT !.initReturned = TRUE, !.pc = "await_delay"]

\* Variant of InitializeReturned: the error carries the last problem.
InitializeReturnedLastProblem(run, problems) ==
  LET r == [run EXCEPT !.initReturned = TRUE]
  IN IF problems # <<>>
     THEN Throw(r, problems[Len(problems)])
     ELSE [r EXCEPT !.pc = "await_delay"]

\* The continuation of run() after source.initialize() returned result.
InitializeReturned(run, problems) ==
  LET r == [run EXCEPT !.initReturned = TRUE]
  IN IF problems # <<>>
     THEN Throw(r, problems[1])
     ELSE [r EXCEPT !.pc = "await_delay"]

\* The continuation of run() after delay(500).
DelayElapsed(run) ==
  CallListener([run EXCEPT !.pc = "await_loading_notify"],
               InitializingState("getting messages"))

\* Variant of IteratorYielded: unshift instead of push.
IteratorYieldedReversed(run, item) ==
  LET r == [run EXCEPT !.pulled = @ + 1]
  IN IF item.problem # NoProblem
     THEN Throw(r, item.problem)
     ELSE [r EXCEPT !.msgEvents = <<item.msgEvent>> \o @]

\* Variant of IteratorYielded: an item with a problem is skipped.
IteratorYieldedSkipsProblem(run, item) ==
  LET r == [run EXCEPT !.pulled = @ + 1]
  IN IF item.problem # NoProblem
     THEN r
     ELSE [r EXCEPT !.msgEvents = Append(@, item.msgEvent)]

\* Variant of IteratorYielded: every message event is played as soon as it
\* is pulled.
IteratorYieldedStreaming(run, item) ==
  LET r == [run EXCEPT !.pulled = @ + 1]
  IN IF item.problem # NoProblem
     THEN Throw(r, item.problem)
     ELSE CallListener([r EXCEPT !.msgEvents = Append(@, item.msgEvent),
                                 !.pc = "await_present",
                                 !.k = Len(run.msgEvents) + 1],
                       PresentState(item.msgEvent))

\* One iteration of for await (const item of iterator).
IteratorYielded(run, item) ==
  LET r == [run EXCEPT !.pulled = @ + 1]
  IN IF item.problem # NoProblem
     THEN Throw(r, item.problem)
     ELSE [r EXCEPT !.msgEvents = Append(@, item.msgEvent)]

\* Variant of IteratorExhausted: the run ends without playback.
IteratorExhaustedNoPlayback(run) ==
  [run EXCEPT !.iterDone = TRUE, !.pc = "done"]

\* The iterator is exhausted: the loading loop ends, playback starts.
IteratorExhausted(run) ==
  Playback([run EXCEPT !.iterDone = TRUE], 1)


(***************************************************************************)
(* GlobalVariablesTable                                                    *)
(*                                                                         *)
(* A GlobalVariables object is the sequence of its [key, value] entries in *)
(* Object.keys order (all names used here are non-numeric strings, which   *)
(* JavaScript keeps in insertion order).                                   *)
(***************************************************************************)
Keys(obj) == [i \in 1..Len(obj) |-> obj[i].key]

HasKey(obj, k) == \E i \in 1..Len(obj) : obj[i].key = k

\* obj[k]
Get(obj, k) ==
  IF HasKey(obj, k)
  THEN obj[CHOOSE i \in 1..Len(obj) : obj[i].key = k].value
  ELSE Undefined

\* obj[k] = v while an object literal or a spread is evaluated: an existing
\* key keeps its position, a new key goes last.
Put(obj, k, v) ==
  IF HasKey(obj, k)
  THEN [i \in 1..Len(obj) |-> IF obj[i].key = k THEN [key |-> k, value |-> v]
                                                 ELSE obj[i]]
  ELSE Append(obj, [key |-> k, value |-> v])

\* { ...target, ...source }
RECURSIVE Spread(_, _)
Spread(target, source) ==
  IF source = <<>> THEN target
  ELSE Spread(Put(target, Head(source).key, Head(source).value), Tail(source))

\* lodash pick(obj, keys)
RECURSIVE pick(_, _)
pick(obj, keys) ==
  IF keys = <<>> THEN <<>>
  ELSE LET rest == pick(obj, Tail(keys))
       IN IF HasKey(obj, Head(keys))
          THEN Spread(<<[key |-> Head(keys), value |-> Get(obj, Head(keys))]>>, rest)
          ELSE rest

\* keys.slice(from, to) with 0-based from (inclusive) and to (exclusive)
slice(keys, from, to) ==
  LET lo == IF from > Len(keys) THEN Len(keys) ELSE from
      hi == IF to > Len(keys) THEN Len(keys) ELSE to
  IN IF hi <= lo THEN <<>> ELSE SubSeq(keys, lo + 1, hi)

\* useGlobalVariables().setGlobalVariables(payload): the payload is merged
\* into the current object and the keys whose value is undefined are removed.
setGlobalVariables(obj, payload) ==
  LET merged == Spread(obj, payload)
  IN SelectSeq(merged, LAMBDA e : e.value # Undefined)

\* useGlobalVariables().overwriteGlobalVariables(obj)
overwriteGlobalVariables(obj) == obj

\* partition(globalVariableNames, name => !!linkedGlobalVariablesByName[name])
linked == SelectSeq(Keys(globalVariables), LAMBDA n : n \in linkedNames)
unlinked == SelectSeq(Keys(globalVariables), LAMBDA n : n \notin linkedNames)

\* disabled={globalVariables[""] != undefined}: the loose comparison takes
\* null for undefined.
AddDisabled == Get(globalVariables, "") \notin {Undefined, Null}

\* union(Object.keys(globalVariables), Object.keys(previous)).filter(
\*   name => previous[name] !== globalVariables[name])
newChangedVariables(previous, obj) ==
  {name \in {Keys(obj)[i] : i \in 1..Len(obj)} \cup
            {Keys(previous)[i] : i \in 1..Len(previous)} :
     Get(previous, name) # Get(obj, name)}

changeGlobalKey(newKey, oldKey, obj, idx) ==
  LET keys == Keys(obj)
  IN overwriteGlobalVariables(
       Spread(Put(pick(obj, slice(keys, 0, idx)), newKey, Get(obj, oldKey)),
              pick(obj, slice(keys, idx + 1, Len(keys)))))

----
\* a player right after its construction
InitPlayer ==
  /\ listener = NoListener
  /\ subscriptions = <<>>
  /\ runs = <<>>
  /\ closed = FALSE
  /\ sentAfterClose = FALSE

\* the table right after its first render over a layout without variables:
\* both effects have run once
InitTable ==
  /\ globalVariables = <<>>
  /\ linkedNames = {}
  /\ changedVariables = {}
  /\ previousGlobalVariablesRef = <<>>
  /\ resetTimer = NoTimer
  /\ skipAnimation = TRUE
  /\ skipTimer = ANIMATION_RESET_DELAY_MS
  /\ focused = FALSE
  /\ sinceChange = 0

\* the 3D panel once mounted: the effect on [canvas] has created the
\* Renderer and the effect on [config.publish.type, renderer] has run
InitPanel ==
  /\ measureActive = FALSE
  /\ publishActive = FALSE
  /\ publishClickType = configPublishType
  /\ publishMenuExpanded = FALSE
  /\ didSeek = FALSE
  /\ messages = 0
  /\ renderDone = Undefined
  /\ pendingDidSeek = NoUpdate
  /\ pendingMessages = NoUpdate
  /\ pendingUpdaters = <<>>
  /\ pendingEffects = {}
  /\ needsRender = FALSE
  /\ contents = <<>>
  /\ awaitingFrame = {}
  /\ drawn = {}
  /\ clears = 0
  /\ stateSeek = <<>>
  /\ doneLog = <<>>

\* the player over every source of the bounds; table and panel are left alone
Init ==
  /\ InitPlayer
  /\ InitTable
  /\ configPublishType = "point"
  /\ InitPanel
  /\ initProblems \in InitProblemChoices
  /\ sourceItems \in ItemSeqs(MaxItems)

\* the table; the player and the panel are left alone
TableInit ==
  /\ InitPlayer
  /\ InitTable
  /\ configPublishType = "point"
  /\ InitPanel
  /\ initProblems = <<>>
  /\ sourceItems = <<>>

setListener(l) ==
  /\ Len(runs) < MaxRuns
  /\ listener' = l
  /\ runs' = Append(runs, Run(l))
  /\ UNCHANGED <<subscriptions, observerVars, sourceVars, tableVars, panelVars>>

\* Variant of close: the runs in progress are cancelled.
closeCancels ==
  /\ closed' = (closed \/ runs # <<>>)
  /\ runs' = [r \in DOMAIN runs |->
               IF runs[r].pc \in {"done", "aborted"} THEN runs[r]
               ELSE [runs[r] EXCEPT !.pc = "aborted", !.error = "closed"]]
  /\ UNCHANGED <<listener, subscriptions, sentAfterClose, sourceVars, tableVars, panelVars>>

close ==
  /\ closed' = (closed \/ runs # <<>>)
  /\ UNCHANGED <<playerVars, sentAfterClose, sourceVars, tableVars, panelVars>>

setSubscriptions(subs) ==
  /\ subscriptions' = subs
  /\ UNCHANGED <<listener, runs, observerVars, sourceVars, tableVars, panelVars>>

StepRun(r, after) ==
  /\ runs' = [runs EXCEPT ![r] = after]
  /\ sentAfterClose' =
       (sentAfterClose \/
          (closed /\ r = 1 /\ Len(after.sent) > Len(runs[r].sent)))
  /\ UNCHANGED <<listener, subscriptions, closed, sourceVars, tableVars, panelVars>>

ListenerResolves(r) ==
  /\ runs[r].pc \in {"await_init_notify", "await_loading_notify", "await_present"}
  /\ runs[r].outstanding > 0
  /\ StepRun(r, ListenerResolved(runs[r]))

\* Variant of ListenerRejects: the rejection is caught, the run goes on.
ListenerRejectsCaught(r) ==
  /\ runs[r].pc \in {"await_init_notify", "await_loading_notify", "await_present"}
  /\ runs[r].outstanding > 0
  /\ StepRun(r, [ListenerResolved(runs[r]) EXCEPT !.error = ListenerError])

ListenerRejects(r) ==
  /\ runs[r].pc \in {"await_init_notify", "await_loading_notify", "await_present"}
  /\ runs[r].outstanding > 0
  /\ StepRun(r, Throw([runs[r] EXCEPT !.outstanding = @ - 1], ListenerError))

SourceInitialized(r) ==
  /\ runs[r].pc = "await_initialize"
  /\ StepRun(r, InitializeReturned(runs[r], initProblems))

DelayFires(r) ==
  /\ runs[r].pc = "await_delay"
  /\ StepRun(r, DelayElapsed(runs[r]))

IteratorNext(r) ==
  /\ runs[r].pc = "await_next"
  /\ IF runs[r].pulled < Len(sourceItems)
     THEN StepRun(r, IteratorYielded(runs[r], sourceItems[runs[r].pulled + 1]))
     ELSE StepRun(r, IteratorExhausted(runs[r]))

NextPlayer ==
  \/ \E l \in Listeners : setListener(l)
  \/ close
  \/ \E subs \in SubscriptionChoices : setSubscriptions(subs)
  \/ \E r \in DOMAIN runs : ListenerResolves(r)
  \/ \E r \in DOMAIN runs : ListenerRejects(r)
  \/ \E r \in DOMAIN runs : SourceInitialized(r)
  \/ \E r \in DOMAIN runs : DelayFires(r)
  \/ \E r \in DOMAIN runs : IteratorNext(r)

SpecPlayer == Init /\ [][NextPlayer]_vars

\* The player over the sources without problems, with listeners whose
\* promises all resolve.  The event loop runs every continuation that is
\* ready: each run's next step is taken if it stays possible.  close(),
\* whose body is empty, is left out.
InitResolving ==
  /\ InitPlayer
  /\ InitTable
  /\ configPublishType = "point"
  /\ InitPanel
  /\ initProblems = <<>>
  /\ sourceItems \in {items \in ItemSeqs(MaxItems) :
                        \A i \in 1..Len(items) : items[i].problem = NoProblem}

RunStep(r) ==
  /\ r \in DOMAIN runs
  /\ \/ ListenerResolves(r)
     \/ SourceInitialized(r)
     \/ DelayFires(r)
     \/ IteratorNext(r)

NextResolving ==
  \/ \E l \in Listeners : setListener(l)
  \/ \E subs \in SubscriptionChoices : setSubscriptions(subs)
  \/ \E r \in 1..MaxRuns : RunStep(r)

SpecResolving ==
  /\ InitResolving
  /\ [][NextResolving]_vars
  /\ \A r \in 1..MaxRuns : WF_vars(RunStep(r))

(***************************************************************************)
(* The handlers of the variables table                                     *)
(***************************************************************************)
\* The effect on [globalVariables]: the cleanup of its previous run clears
\* the pending reset timer, then the effect runs over the new object.
changedVariablesEffect(obj, activeElementEditable) ==
  /\ previousGlobalVariablesRef' = obj
  /\ sinceChange' = 0
  /\ IF skipAnimation \/ activeElementEditable
     THEN /\ changedVariables' = changedVariables
          /\ resetTimer' = NoTimer
     ELSE /\ changedVariables' = newChangedVariables(previousGlobalVariablesRef, obj)
          /\ resetTimer' = ANIMATION_RESET_DELAY_MS
  /\ UNCHANGED <<skipAnimation, skipTimer>>

\* globalVariables becomes obj and the table renders again
StepTable(obj, activeElementEditable) ==
  /\ globalVariables' = obj
  /\ focused' = activeElementEditable
  /\ changedVariablesEffect(obj, activeElementEditable)
  /\ UNCHANGED <<playerVars, observerVars, sourceVars, panelVars>>

\* the add-variable button; the new row's name input has autoFocus
AddVariable ==
  /\ ~AddDisabled
  /\ \E f \in BOOLEAN :
       StepTable(setGlobalVariables(globalVariables,
                                    <<[key |-> "", value |-> ""]>>), f)
  /\ UNCHANGED linkedNames

\* typing in the name input of the idx-th unlinked row (0-based)
RenameVariable(idx, newKey) ==
  /\ idx + 1 \in 1..Len(unlinked)
  /\ newKey # unlinked[idx + 1]
  /\ StepTable(changeGlobalKey(newKey, unlinked[idx + 1], globalVariables,
                               Len(linked) + idx), TRUE)
  /\ UNCHANGED linkedNames

\* typing in the JSON editor of an unlinked row (read-only when linked)
EditValue(name, newVal) ==
  /\ HasKey(globalVariables, name)
  /\ name \notin linkedNames
  /\ StepTable(setGlobalVariables(globalVariables,
                                  <<[key |-> name, value |-> newVal]>>), TRUE)
  /\ UNCHANGED linkedNames

\* the menu item "Delete variable"
unlinkAndDelete(name) ==
  /\ HasKey(globalVariables, name)
  /\ linkedNames' = linkedNames \ {name}
  /\ StepTable(setGlobalVariables(globalVariables,
                                  <<[key |-> name, value |-> Undefined]>>), FALSE)

\* another user of useGlobalVariables sets a variable; the focus stays
setElsewhere(name, newVal) ==
  /\ HasKey(globalVariables, name)
  /\ StepTable(setGlobalVariables(globalVariables,
                                  <<[key |-> name, value |-> newVal]>>), focused)
  /\ UNCHANGED linkedNames

\* a 3D panel links a variable to a topic path
Link(name) ==
  /\ HasKey(globalVariables, name)
  /\ name \notin linkedNames
  /\ linkedNames' = linkedNames \cup {name}
  /\ UNCHANGED <<globalVariables, highlightVars, focused,
                 playerVars, observerVars, sourceVars, panelVars>>

\* "Unlink <path>"
unlink(name) ==
  /\ name \in linkedNames
  /\ linkedNames' = linkedNames \ {name}
  /\ UNCHANGED <<globalVariables, highlightVars, focused,
                 playerVars, observerVars, sourceVars, panelVars>>

\* the user moves the focus into or out of an input
FocusChange ==
  /\ focused' = ~focused
  /\ UNCHANGED <<globalVariables, linkedNames, highlightVars,
                 playerVars, observerVars, sourceVars, panelVars>>

\* TickMs pass; a timer that becomes due fires
Tick ==
  /\ \/ resetTimer # NoTimer
     \/ skipTimer # NoTimer
     \/ sinceChange < ANIMATION_RESET_DELAY_MS
  /\ sinceChange' = IF sinceChange + TickMs >= ANIMATION_RESET_DELAY_MS
                    THEN ANIMATION_RESET_DELAY_MS ELSE sinceChange + TickMs
  /\ IF skipTimer = NoTimer
     THEN UNCHANGED <<skipTimer, skipAnimation>>
     ELSE IF skipTimer <= TickMs
          THEN skipTimer' = NoTimer /\ skipAnimation' = FALSE
          ELSE skipTimer' = skipTimer - TickMs /\ UNCHANGED skipAnimation
  /\ IF resetTimer = NoTimer
     THEN UNCHANGED <<resetTimer, changedVariables>>
     ELSE IF resetTimer <= TickMs
          THEN resetTimer' = NoTimer /\ changedVariables' = {}
          ELSE resetTimer' = resetTimer - TickMs /\ UNCHANGED changedVariables
  /\ UNCHANGED <<globalVariables, linkedNames, previousGlobalVariablesRef,
                 focused, playerVars, observerVars, sourceVars, panelVars>>

NextTable ==
  \/ AddVariable
  \/ \E idx \in 0..(Cardinality(Names) - 1), newKey \in Names :
       RenameVariable(idx, newKey)
  \/ \E name \in Names, newVal \in Values : EditValue(name, newVal)
  \/ \E name \in Names : unlinkAndDelete(name)
  \/ \E name \in Names, newVal \in Values : setElsewhere(name, newVal)
  \/ \E name \in Names : Link(name)
  \/ \E name \in Names : unlink(name)
  \/ FocusChange
  \/ Tick

SpecTable == TableInit /\ [][NextTable]_vars

(***************************************************************************)
(* The 3D panel: tools, render states, effects                             *)
(***************************************************************************)
\* the panel, with its Renderer, over every saved publish type; player and
\* table are left alone
PanelInit ==
  /\ InitPlayer
  /\ InitTable
  /\ configPublishType \in PublishClickTypes
  /\ InitPanel
  /\ initProblems = <<>>
  /\ sourceItems = <<>>

\* the event a tool dispatches for a call of one of its methods
MeasurementToolEvent(method) ==
  IF method = "startMeasuring" THEN "foxglove.measure-start"
  ELSE "foxglove.measure-end"

PublishClickToolEvent(method) ==
  IF method = "start" THEN "foxglove.publish-start" ELSE "foxglove.publish-end"

\* the listeners onStart / onEnd of the two tools
measureListener(event) == event = "foxglove.measure-start"

publishListener(event) == event = "foxglove.publish-start"

\* a done callback returns nothing
DoneReturns == Undefined

\* done() is called for render state id: the observer notes whether the
\* message of that state has been drawn by then
DoneCalled(log, id, drawnNow) ==
  Append(log, [id |-> id, complete |-> id \in drawnNow])

RECURSIVE InvokeUpdaters(_, _, _)
InvokeUpdaters(log, updaters, drawnNow) ==
  IF updaters = <<>> THEN log
  ELSE InvokeUpdaters(DoneCalled(log, Head(updaters), drawnNow),
                      Tail(updaters), drawnNow)

Latest(pending, current) == IF pending = NoUpdate THEN current ELSE pending[1]

\* the effects whose dependencies changed in a render; the frame effect has
\* no dependency list and runs after every render
EffectsOf(oldSeek, newSeek, oldMessages, newMessages, oldDone, newDone) ==
  {"frame"}
    \cup (IF newSeek # oldSeek THEN {"seek"} ELSE {})
    \cup (IF newMessages # oldMessages THEN {"messages"} ELSE {})
    \cup (IF newDone # oldDone THEN {"done"} ELSE {})

UpdatesPending ==
  \/ pendingDidSeek # NoUpdate
  \/ pendingMessages # NoUpdate
  \/ pendingUpdaters # <<>>

panelFrozen == UNCHANGED <<playerVars, observerVars, sourceVars, tableVars>>

onClickMeasure ==
  /\ ~publishMenuExpanded
  /\ IF measureActive
     THEN /\ measureActive' = measureListener(MeasurementToolEvent("stopMeasuring"))
          /\ UNCHANGED publishActive
     ELSE /\ measureActive' = measureListener(MeasurementToolEvent("startMeasuring"))
          /\ publishActive' = publishListener(PublishClickToolEvent("stop"))
  /\ UNCHANGED <<publishClickType, configPublishType,
                 publishMenuExpanded, reactVars, rendererVars, hostVars>>
  /\ panelFrozen

onClickPublish ==
  /\ ~publishMenuExpanded
  /\ IF publishActive
     THEN /\ publishActive' = publishListener(PublishClickToolEvent("stop"))
          /\ UNCHANGED measureActive
     ELSE /\ publishActive' = publishListener(PublishClickToolEvent("start"))
          /\ measureActive' = measureListener(MeasurementToolEvent("stopMeasuring"))
  /\ UNCHANGED <<publishClickType, configPublishType,
                 publishMenuExpanded, reactVars, rendererVars, hostVars>>
  /\ panelFrozen

\* a long press on the publish button opens the menu of publish types
onLongPressPublish ==
  /\ ~publishMenuExpanded
  /\ publishMenuExpanded' = TRUE
  /\ UNCHANGED <<measureActive, publishActive, publishClickType,
                 configPublishType, reactVars, rendererVars, hostVars>>
  /\ panelFrozen

\* a MenuItem of the menu: props.onChangePublishClickType(type), then the
\* menu closes
onChangePublishClickType(type) ==
  /\ publishMenuExpanded
  /\ publishMenuExpanded' = FALSE
  /\ publishClickType' = type
  /\ publishActive' = publishListener(PublishClickToolEvent("start"))
  /\ UNCHANGED <<measureActive, configPublishType, reactVars,
                 rendererVars, hostVars>>
  /\ panelFrozen

\* Menu onClose: a click outside the menu
onClose ==
  /\ publishMenuExpanded
  /\ publishMenuExpanded' = FALSE
  /\ UNCHANGED <<measureActive, publishActive, publishClickType,
                 configPublishType, reactVars, rendererVars, hostVars>>
  /\ panelFrozen

\* config.publish.type changes in the settings; the effect on
\* [config.publish.type, renderer] runs
ConfigPublishTypeChanged(type) ==
  /\ type # configPublishType
  /\ configPublishType' = type
  /\ IF publishClickType # type
     THEN /\ publishClickType' = type
          /\ publishActive' = publishListener(PublishClickToolEvent("stop"))
     ELSE UNCHANGED <<publishClickType, publishActive>>
  /\ UNCHANGED <<measureActive, publishMenuExpanded, reactVars,
                 rendererVars, hostVars>>
  /\ panelFrozen

\* the measurement is completed on the canvas: the tool dispatches measure-end
MeasureEnds ==
  /\ measureActive
  /\ measureActive' = measureListener(MeasurementToolEvent("stopMeasuring"))
  /\ UNCHANGED <<publishActive, publishClickType, configPublishType,
                 publishMenuExpanded, reactVars, rendererVars, hostVars>>
  /\ panelFrozen

\* the click is placed on the canvas: publish-submit, then publish-end
PublishEnds ==
  /\ publishActive
  /\ publishActive' = publishListener(PublishClickToolEvent("stop"))
  /\ UNCHANGED <<measureActive, publishClickType, configPublishType,
                 publishMenuExpanded, reactVars, rendererVars, hostVars>>
  /\ panelFrozen

\* context.onRender(renderState, done): the host hands over its next render
\* state once the done callbacks of the earlier ones have been called.  The
\* state updates are batched.  setRenderDone(done) passes a function to a
\* state setter, which takes it for an updater: it is invoked to compute the
\* next state, at once when the queue is empty, else in the next render.
onRender(seek, eager) ==
  /\ Len(stateSeek) < MaxRenderStates
  /\ Len(doneLog) = Len(stateSeek)
  /\ LET id == Len(stateSeek) + 1
     IN /\ stateSeek' = Append(stateSeek, seek)
        /\ pendingDidSeek' = IF seek THEN <<TRUE>> ELSE pendingDidSeek
        /\ pendingMessages' = <<id>>
        /\ IF eager
           THEN /\ doneLog' = DoneCalled(doneLog, id, drawn)
                /\ UNCHANGED pendingUpdaters
           ELSE /\ pendingUpdaters' = Append(pendingUpdaters, id)
                /\ UNCHANGED doneLog
  /\ UNCHANGED <<toolVars, didSeek, messages, renderDone,
                 pendingEffects, rendererVars>>
  /\ panelFrozen

\* The panel renders with the queued updates; the effects of the render
\* before have run by then.
Render ==
  /\ UpdatesPending
  /\ pendingEffects = {}
  /\ didSeek' = Latest(pendingDidSeek, didSeek)
  /\ messages' = Latest(pendingMessages, messages)
  /\ renderDone' = IF pendingUpdaters = <<>> THEN renderDone ELSE DoneReturns
  /\ doneLog' = InvokeUpdaters(doneLog, pendingUpdaters, drawn)
  /\ pendingDidSeek' = NoUpdate
  /\ pendingMessages' = NoUpdate
  /\ pendingUpdaters' = <<>>
  /\ pendingEffects' = EffectsOf(didSeek, didSeek', messages, messages',
                                 renderDone, renderDone')
  /\ UNCHANGED <<toolVars, rendererVars, stateSeek>>
  /\ panelFrozen

\* The effects of the last render run in the order of their declaration:
\* seek, messages, frame, done.  The updates they queue, and those queued
\* since the render, are rendered right after.
FlushEffects ==
  /\ pendingEffects # {}
  /\ LET flush == "seek" \in pendingEffects /\ didSeek
         add == "messages" \in pendingEffects /\ messages # 0
         contents1 == IF flush THEN <<>> ELSE contents
         awaiting1 == IF flush THEN {} ELSE awaitingFrame
         queuedSeek == IF flush THEN <<FALSE>> ELSE pendingDidSeek
         contents2 == IF add THEN Append(contents1, messages) ELSE contents1
         awaiting2 == IF add THEN awaiting1 \cup {messages} ELSE awaiting1
         needsRender2 == needsRender \/ add
         frame == needsRender2
         drawn2 == IF frame THEN drawn \cup awaiting2 ELSE drawn
         log1 == IF "done" \in pendingEffects /\ renderDone # Undefined
                 THEN DoneCalled(doneLog, renderDone, drawn2) ELSE doneLog
         rerender == queuedSeek # NoUpdate \/ pendingMessages # NoUpdate
                     \/ pendingUpdaters # <<>>
     IN /\ contents' = contents2
        /\ clears' = IF flush THEN clears + 1 ELSE clears
        /\ awaitingFrame' = IF frame THEN {} ELSE awaiting2
        /\ needsRender' = (needsRender2 /\ ~frame)
        /\ drawn' = drawn2
        /\ didSeek' = Latest(queuedSeek, didSeek)
        /\ messages' = Latest(pendingMessages, messages)
        /\ renderDone' = IF pendingUpdaters = <<>> THEN renderDone ELSE DoneReturns
        /\ doneLog' = InvokeUpdaters(log1, pendingUpdaters, drawn2)
        /\ pendingDidSeek' = NoUpdate
        /\ pendingMessages' = NoUpdate
        /\ pendingUpdaters' = <<>>
        /\ pendingEffects' =
             IF rerender
             THEN EffectsOf(didSeek, didSeek', messages, messages',
                            renderDone, renderDone')
             ELSE {}
  /\ UNCHANGED <<toolVars, stateSeek>>
  /\ panelFrozen

NextPanel ==
  \/ onClickMeasure
  \/ onClickPublish
  \/ onLongPressPublish
  \/ \E type \in PublishClickTypes : onChangePublishClickType(type)
  \/ onClose
  \/ \E type \in PublishClickTypes : ConfigPublishTypeChanged(type)
  \/ MeasureEnds
  \/ PublishEnds
  \/ \E seek \in BOOLEAN, eager \in BOOLEAN : onRender(seek, eager)
  \/ Render
  \/ FlushEffects

SpecPanel == PanelInit /\ [][NextPanel]_vars

(***************************************************************************)
(* Properties of BenchmarkPlayer                                           *)
(***************************************************************************)
Presents(run) == SelectSeq(run.sent, LAMBDA n : n.state.presence = "PRESENT")

ProblemFree(items) == \A i \in 1..Len(items) : items[i].problem = NoProblem

\* C1: in every run the first notification ("initializing source") is
\* issued and resolved before source.initialize() is called; initialize()
\* has returned without problems before the second notification ("getting
\* messages") is issued; source.messageIterator() is requested only after
\* that second notification resolved.
C1_PhaseOrder ==
  \A r \in DOMAIN runs :
    LET run == runs[r]
    IN /\ run.initCalls > 0 =>
            /\ Len(run.sent) >= 1
            /\ run.sent[1].state = InitializingState("initializing source")
            /\ run.resolved >= 1
       /\ Len(run.sent) >= 2 =>
            /\ run.initCalls = 1
            /\ run.initReturned
            /\ initProblems = <<>>
            /\ run.sent[2].state = InitializingState("getting messages")
       /\ run.iterCalls > 0 =>
            /\ Len(run.sent) >= 2
            /\ run.resolved >= 2

C1_Witness ==
  \E r \in DOMAIN runs : runs[r].iterCalls = 1 /\ runs[r].pc = "await_next"

\* C2: over a source whose iterator yields N items without a problem, the
\* PRESENT notifications of a run carry, one message each, the yielded
\* message events in iterator order, and a completed run has delivered
\* exactly N of them.
C2_PresentInOrder ==
  ProblemFree(sourceItems) =>
    \A r \in DOMAIN runs :
      LET P == Presents(runs[r])
      IN /\ Len(P) <= Len(sourceItems)
         /\ \A k \in 1..Len(P) :
              /\ P[k].state.messages = <<sourceItems[k].msgEvent>>
              /\ P[k].to = runs[r].listener
         /\ runs[r].pc = "done" => Len(P) = Len(sourceItems)

C2_Witness ==
  /\ ProblemFree(sourceItems)
  /\ Len(sourceItems) = MaxItems
  /\ \E r \in DOMAIN runs :
       runs[r].pc = "done" /\ Len(Presents(runs[r])) = MaxItems

\* C3: a run never has more than one listener invocation outstanding.
C3_OneOutstanding ==
  \A r \in DOMAIN runs : runs[r].outstanding <= 1

C3_Witness ==
  \E r \in DOMAIN runs :
    /\ runs[r].pc = "await_present"
    /\ runs[r].k = 2
    /\ runs[r].outstanding = 1
    /\ Len(runs) = MaxRuns

\* C4: when source.initialize() reports problems, a run that got the
\* result has aborted with the first problem's message after exactly one
\* notification, and no run asks for the message iterator or delivers a
\* PRESENT notification.
C4_InitProblemsAbort ==
  initProblems # <<>> =>
    \A r \in DOMAIN runs :
      LET run == runs[r]
      IN /\ run.iterCalls = 0
         /\ Presents(run) = <<>>
         /\ Len(run.sent) <= 1
         /\ run.initReturned =>
              /\ run.pc = "aborted"
              /\ run.error = initProblems[1]
              /\ Len(run.sent) = 1
              /\ run.sent[1].state = InitializingState("initializing source")

C4_Witness ==
  /\ Len(initProblems) = 2
  /\ \E r \in DOMAIN runs : runs[r].initReturned /\ runs[r].pc = "aborted"

\* C5: once the iterator has yielded an item with a problem, be it the
\* first, a middle or the last item, the run is aborted with that problem
\* and has delivered no PRESENT notification.
C5_ItemProblemAborts ==
  \A r \in DOMAIN runs :
    LET run == runs[r]
    IN (\E i \in 1..run.pulled : sourceItems[i].problem # NoProblem) =>
         /\ run.pc = "aborted"
         /\ run.error = sourceItems[run.pulled].problem
         /\ run.error # NoProblem
         /\ Presents(run) = <<>>

C5_Witness ==
  \E r \in DOMAIN runs :
    /\ runs[r].pulled = MaxItems
    /\ sourceItems[MaxItems].problem # NoProblem
    /\ Len(runs[r].msgEvents) = MaxItems - 1
    /\ runs[r].pc = "aborted"

\* C6: a run that has issued a PRESENT notification has exhausted the
\* message iterator before, and pulls nothing from it any more.
C6_LoadBeforePlayback ==
  \A r \in DOMAIN runs :
    Presents(runs[r]) # <<>> =>
      /\ runs[r].iterDone
      /\ runs[r].pulled = Len(sourceItems)
      /\ Len(runs[r].msgEvents) = Len(sourceItems)
      /\ runs[r].pc \in {"await_present", "done", "aborted"}

C6_Witness ==
  \E r \in DOMAIN runs :
    /\ Len(Presents(runs[r])) = 1
    /\ Len(sourceItems) >= 2
    /\ runs[r].pc = "await_present"

\* C7: a setListener call registers the listener, issues the first
\* ("initializing source") notification to it and returns with the run
\* suspended at that notification; a run fails only in a later step, which
\* changes nothing but the run itself.
C7_FireAndForget ==
  [][/\ Len(runs') > Len(runs) =>
          LET new == runs'[Len(runs')]
          IN /\ Len(runs') = Len(runs) + 1
             /\ new.listener = listener'
             /\ new.sent = <<[state |-> InitializingState("initializing source"),
                              to |-> listener']>>
             /\ new.outstanding = 1
             /\ new.pc = "await_init_notify"
             /\ new.error = NoError
     /\ \A r \in DOMAIN runs :
          (runs[r].error = NoError /\ runs'[r].error # NoError) =>
             /\ runs'[r].pc = "aborted"
             /\ listener' = listener
             /\ subscriptions' = subscriptions
             /\ \A q \in DOMAIN runs : q # r => runs'[q] = runs[q]]_vars

C7_Witness ==
  \E r \in DOMAIN runs :
    /\ runs[r].pc = "aborted"
    /\ runs[r].error = ListenerError
    /\ Len(runs[r].sent) = 1

\* C8: a run calls source.initialize() and source.messageIterator() at most
\* once each, and an aborted run never changes again: no further call to
\* the source or to the listener.
C8_NoRetry ==
  [][\A r \in DOMAIN runs :
       /\ r \in DOMAIN runs'
       /\ runs'[r].initCalls <= 1
       /\ runs'[r].iterCalls <= 1
       /\ runs[r].pc = "aborted" => runs'[r] = runs[r]]_vars

C8_Witness ==
  \E r \in DOMAIN runs :
    /\ runs[r].pc = "aborted"
    /\ runs[r].initCalls = 1
    /\ runs[r].iterCalls = 1
    /\ runs[r].error = "p"

\* C9: close() changes no player state, and after close() every run that
\* waits for its listener, for the source or for the delay can still take
\* its next step.
RunCanStep(r) ==
  \/ ENABLED ListenerResolves(r)
  \/ ENABLED SourceInitialized(r)
  \/ ENABLED DelayFires(r)
  \/ ENABLED IteratorNext(r)

C9_CloseNoOp ==
  /\ [][closed' # closed => UNCHANGED playerVars]_vars
  /\ [](closed => \A r \in DOMAIN runs :
                    runs[r].pc \notin {"done", "aborted"} => RunCanStep(r))

C9_Witness ==
  /\ sentAfterClose
  /\ runs[1].pc = "done"
  /\ Len(Presents(runs[1])) = MaxItems

\* C12: the topics a run requests are those of the subscription list in
\* effect when its second notification resolves, in subscription order,
\* and a later setSubscriptions call changes neither the topics requested
\* nor the message events loaded by that run.
TopicsOf(subs) == [i \in 1..Len(subs) |-> subs[i].topic]

C12_TopicsAtSecondResolve ==
  [][\A r \in DOMAIN runs :
       /\ (runs[r].iterCalls = 0 /\ runs'[r].iterCalls = 1) =>
             /\ runs[r].pc = "await_loading_notify"
             /\ runs[r].resolved = 1 /\ runs'[r].resolved = 2
             /\ runs'[r].iterTopics = TopicsOf(subscriptions)
       /\ runs[r].iterCalls = 1 => runs'[r].iterTopics = runs[r].iterTopics
       /\ subscriptions' # subscriptions => runs'[r] = runs[r]]_vars

C12_Witness ==
  /\ Len(runs) = 2
  /\ subscriptions = <<[topic |-> "t2"], [topic |-> "t1"]>>
  /\ runs[1].iterCalls = 1 /\ runs[1].iterTopics = <<>>
  /\ runs[2].iterCalls = 1 /\ runs[2].iterTopics = <<"t2", "t1">>
  /\ runs[1].pc = "done" /\ Len(Presents(runs[1])) = Len(sourceItems)

\* C17: a run whose listener promise rejected has stopped at that
\* notification: it is the last one the run delivered, the run never
\* changes again, and when the rejection came before loading the source has
\* not been asked for messages (nor initialised, when the first notification
\* was the one rejected).
C17_RejectionStopsRun ==
  /\ [](\A r \in DOMAIN runs :
          runs[r].error = ListenerError =>
            /\ runs[r].pc = "aborted"
            /\ Len(runs[r].sent) = runs[r].resolved + 1
            /\ runs[r].outstanding = 0
            /\ runs[r].resolved = 0 => runs[r].initCalls = 0
            /\ runs[r].resolved < 2 =>
                  runs[r].iterCalls = 0 /\ runs[r].pulled = 0)
  /\ [][\A r \in DOMAIN runs :
          runs[r].error = ListenerError => runs'[r] = runs[r]]_vars

C17_Witness ==
  /\ Len(runs) = 2
  /\ runs[1].error = ListenerError
  /\ runs[1].resolved = 1 /\ runs[1].initCalls = 1 /\ runs[1].iterCalls = 0
  /\ runs[2].error = ListenerError
  /\ Len(Presents(runs[2])) = 1 /\ Len(runs[2].msgEvents) >= 2

\* C18: a run keeps the listener of the setListener call that started it
\* and delivers every notification to that listener; a setListener call
\* starts a new run for its listener and changes no run in progress.
C18_ListenerPerRun ==
  /\ [](\A r \in DOMAIN runs : \A i \in DOMAIN runs[r].sent :
          runs[r].sent[i].to = runs[r].listener)
  /\ [][/\ \A r \in DOMAIN runs :
             /\ r \in DOMAIN runs'
             /\ runs'[r].listener = runs[r].listener
        /\ listener' # listener =>
             /\ Len(runs') = Len(runs) + 1
             /\ runs'[Len(runs')].listener = listener'
             /\ \A r \in DOMAIN runs : runs'[r] = runs[r]]_vars

C18_Witness ==
  /\ Len(runs) = 2
  /\ runs[1].listener = "l1" /\ runs[2].listener = "l2" /\ listener = "l2"
  /\ runs[2].pc = "await_init_notify"
  /\ runs[1].pc = "await_present" /\ runs[1].outstanding = 1
  /\ \A i \in DOMAIN runs[1].sent : runs[1].sent[i].to = "l1"

\* C19: over a source whose initialize() returns no problems and whose
\* iterator yields N items without problems, with listener promises that
\* all resolve, every run eventually completes, having delivered exactly
\* 2 + N notifications: two before playback, then N PRESENT.
C19_RunCompletes ==
  \A r \in 1..MaxRuns :
    (r \in DOMAIN runs /\ initProblems = <<>> /\ ProblemFree(sourceItems))
      ~> (/\ r \in DOMAIN runs
          /\ runs[r].pc = "done"
          /\ Len(runs[r].sent) = 2 + Len(sourceItems)
          /\ Len(Presents(runs[r])) = Len(sourceItems)
          /\ runs[r].resolved = 2 + Len(sourceItems))

C19_Witness ==
  /\ Len(runs) = MaxRuns
  /\ Len(sourceItems) = MaxItems
  /\ \A r \in DOMAIN runs :
       /\ runs[r].pc = "done"
       /\ Len(runs[r].sent) = 2 + MaxItems
       /\ Len(Presents(runs[r])) = MaxItems

(***************************************************************************)
(* Properties of the variables table                                       *)
(***************************************************************************)

\* C10: the add-variable button is disabled whenever a variable with the
\* empty name exists.
C10_AddDisabledWhenEmptyNameExists ==
  HasKey(globalVariables, "") => AddDisabled

\* C11: renaming an unlinked variable to a name that is not in use puts the
\* new name with the old value at the old position and leaves every other
\* variable as it was.
Renamed(obj, oldKey, newKey) ==
  [i \in 1..Len(obj) |->
     IF obj[i].key = oldKey THEN [key |-> newKey, value |-> obj[i].value]
                            ELSE obj[i]]

C11_RenameKeepsOthers ==
  [][\A idx \in 0..(Cardinality(Names) - 1), newKey \in Names :
       (RenameVariable(idx, newKey) /\ ~HasKey(globalVariables, newKey)) =>
          globalVariables' = Renamed(globalVariables, unlinked[idx + 1], newKey)]_vars

\* C13: once ANIMATION_RESET_DELAY_MS have passed since the global
\* variables changed last, changedVariables is empty.
C13_HighlightClears ==
  sinceChange >= ANIMATION_RESET_DELAY_MS => changedVariables = {}

(***************************************************************************)
(* Properties of the 3D panel                                              *)
(***************************************************************************)
\* C14: the measure tool and the click-to-publish tool are never active at
\* the same time, whatever the sequence of measure-button clicks,
\* publish-button clicks, publish-type menu selections and publish-type
\* config changes.
C14_ToolsExclusive == ~(measureActive /\ publishActive)

\* C15: the done callback of a render state is invoked at most once, and
\* only after the message of that state has been handed to the renderer and
\* a frame with it has been drawn.
C15_DoneAfterRender ==
  /\ \A k \in DOMAIN doneLog : doneLog[k].complete
  /\ \A k, l \in DOMAIN doneLog : doneLog[k].id = doneLog[l].id => k = l

\* C16: the renderer is flushed once for a render state that arrives with
\* didSeek true: when the message of such a state is in the renderer, no
\* message of an earlier render state is left there, and clear() has been
\* called at most once per seek.
C16_FlushedOncePerSeek ==
  /\ \A i, j \in DOMAIN contents :
       stateSeek[contents[i]] => contents[j] >= contents[i]
  /\ clears <= Cardinality({i \in DOMAIN stateSeek : stateSeek[i]})

====
